---- MODULE Spec2Model ----
(***************************************************************************)
(* Model of repo_inspector.chunker: Chunk, get_directory_group and         *)
(* chunk_files, run statement by statement on bounded inputs.              *)
(*                                                                         *)
(* The text of a path is a sequence of one-character strings (Chars), so   *)
(* that str.lower(), the "in" substring test, str.endswith(),              *)
(* str.split("/") and the code point order used by sorted() are computed   *)
(* rather than assumed.                                                    *)
(* A RepoFile is [path, size]: chunk_files reads f.content only through    *)
(* len(f.content), which is the size field.                                *)
(***************************************************************************)
EXTENDS Integers, Sequences, FiniteSets, TLC

\* ---------------------------------------------------------------- bounds
MaxFiles == 3
MaxSize == 2
MaxTarget == 2
MaxCalls == 2

\* ------------------------------------------------------------ characters
\* Code points of the characters that occur in paths: "." "/" "_" and the
\* ASCII letters (A-Z at 65..90, a-z at 97..122).
UpperCase == <<"A", "B", "C", "D", "E", "F", "G", "H", "I", "J", "K", "L", "M",
               "N", "O", "P", "Q", "R", "S", "T", "U", "V", "W", "X", "Y", "Z">>
LowerCase == <<"a", "b", "c", "d", "e", "f", "g", "h", "i", "j", "k", "l", "m",
               "n", "o", "p", "q", "r", "s", "t", "u", "v", "w", "x", "y", "z">>

Ord ==
  [c \in {"."} |-> 46] @@ [c \in {"/"} |-> 47] @@ [c \in {"_"} |-> 95] @@
  [c \in {UpperCase[i] : i \in 1..26} |->
     64 + (CHOOSE i \in 1..26 : UpperCase[i] = c)] @@
  [c \in {LowerCase[i] : i \in 1..26} |->
     96 + (CHOOSE i \in 1..26 : LowerCase[i] = c)]

\* str.lower() on one character: A-Z (65..90) map to a-z, others are kept.
LowerChar ==
  [c \in DOMAIN Ord |->
     IF Ord[c] >= 65 /\ Ord[c] <= 90
     THEN CHOOSE d \in DOMAIN Ord : Ord[d] = Ord[c] + 32
     ELSE c]

\* str.lower()
Lower(p) == [i \in 1..Len(p) |-> LowerChar[p[i]]]

\* sub in p
Contains(p, sub) ==
  \E i \in 0..(Len(p) - Len(sub)) : SubSeq(p, i + 1, i + Len(sub)) = sub

\* p.endswith(suf)
EndsWith(p, suf) ==
  /\ Len(suf) <= Len(p)
  /\ SubSeq(p, Len(p) - Len(suf) + 1, Len(p)) = suf

\* a < b on str: lexicographic by code point, a proper prefix is smaller.
StrLess(a, b) ==
  \E k \in 0..Len(a) :
    /\ k <= Len(b)
    /\ \A i \in 1..k : a[i] = b[i]
    /\ \/ k = Len(a) /\ k < Len(b)
       \/ k < Len(a) /\ k < Len(b) /\ Ord[a[k + 1]] < Ord[b[k + 1]]

\* ----------------------------------------------------------------- paths
s_readme == <<"r", "e", "a", "d", "m", "e">>
s_init_py == <<"_", "_", "i", "n", "i", "t", "_", "_", ".", "p", "y">>
s_root == <<"_", "_", "r", "o", "o", "t", "_", "_">>
s_main_py == <<"m", "a", "i", "n", ".", "p", "y">>
s_app_py == <<"a", "p", "p", ".", "p", "y">>
s_index_js == <<"i", "n", "d", "e", "x", ".", "j", "s">>
s_index_ts == <<"i", "n", "d", "e", "x", ".", "t", "s">>
s_main_go == <<"m", "a", "i", "n", ".", "g", "o">>
s_main_rs == <<"m", "a", "i", "n", ".", "r", "s">>

\* The tuple tested by "f.path in (...)".
EntryPoints == {s_main_py, s_app_py, s_index_js, s_index_ts, s_main_go, s_main_rs}

p_README_md == "README.md"
p_main_py == "main.py"
p_src_app_py == "src/app.py"
p_src_init_py == "src/__init__.py"
p_src_b_py == "src/b.py"
p_a_py == "a.py"
p_Z_x_py == "Z/x.py"
p_App_py == "App.py"
p_src_main_py == "src/main.py"
p_index_ts == "index.ts"
p_ReadMe_a_py == "ReadMe/a.py"
p_pkg_INIT_PY == "pkg/__INIT__.PY"
p_x_init_py == "x__init__.py"

\* The characters of each path.
Chars ==
  (p_README_md :> <<"R", "E", "A", "D", "M", "E", ".", "m", "d">>) @@
  (p_main_py :> <<"m", "a", "i", "n", ".", "p", "y">>) @@
  (p_src_app_py :> <<"s", "r", "c", "/", "a", "p", "p", ".", "p", "y">>) @@
  (p_src_init_py :> <<"s", "r", "c", "/", "_", "_", "i", "n", "i", "t", "_", "_",
                      ".", "p", "y">>) @@
  (p_src_b_py :> <<"s", "r", "c", "/", "b", ".", "p", "y">>) @@
  (p_a_py :> <<"a", ".", "p", "y">>) @@
  (p_Z_x_py :> <<"Z", "/", "x", ".", "p", "y">>) @@
  (p_App_py :> <<"A", "p", "p", ".", "p", "y">>) @@
  (p_src_main_py :> <<"s", "r", "c", "/", "m", "a", "i", "n", ".", "p", "y">>) @@
  (p_index_ts :> <<"i", "n", "d", "e", "x", ".", "t", "s">>) @@
  (p_ReadMe_a_py :> <<"R", "e", "a", "d", "M", "e", "/", "a", ".", "p", "y">>) @@
  (p_pkg_INIT_PY :> <<"p", "k", "g", "/", "_", "_", "I", "N", "I", "T", "_", "_",
                      ".", "P", "Y">>) @@
  (p_x_init_py :> <<"x", "_", "_", "i", "n", "i", "t", "_", "_", ".", "p", "y">>)

\* Paths the bounded inputs are drawn from: two priority files and two
\* regular files of the groups "src" and "__root__".
Paths == {p_main_py, p_src_init_py, p_src_b_py, p_a_py}

\* Regular files of three groups, two of them in the same group.
RegularPaths == {p_src_app_py, p_src_b_py, p_a_py, p_Z_x_py}

\* Paths on the edges of the priority rules: case of the entry-point names,
\* entry-point names under a directory, "readme" in a directory name, the
\* __init__.py suffix in upper case and inside a longer file name.
ClassifyPaths == {p_App_py, p_src_main_py, p_src_app_py, p_index_ts,
                  p_ReadMe_a_py, p_pkg_INIT_PY, p_x_init_py}

\* ------------------------------------------------------------------ Chunk
\* Chunk(): files from default_factory=list, total_size = 0.
Chunk == [files |-> <<>>, total_size |-> 0]

\* Variant of add_file: total_size = len(file.content) instead of +=.
add_file_assign(c, f) ==
  [files |-> Append(c.files, f), total_size |-> f.size]

\* Chunk.add_file
add_file(c, f) ==
  [files |-> Append(c.files, f), total_size |-> c.total_size + f.size]

\* Optional[Chunk]: <<>> is None, <<c>> is the chunk c.
None == <<>>

\* ---------------------------------------------------- get_directory_group
\* Index of the first "/" of p, or 0.
FirstSlash(path) ==
  LET p == Chars[path]
  IN IF \E i \in 1..Len(p) : p[i] = "/"
     THEN CHOOSE i \in 1..Len(p) : p[i] = "/" /\ \A j \in 1..(i - 1) : p[j] # "/"
     ELSE 0

\* Variant of get_directory_group: the empty string for a path without a
\* directory component.
get_directory_group_empty(p) ==
  IF FirstSlash(p) = 0 THEN <<>> ELSE SubSeq(Chars[p], 1, FirstSlash(p) - 1)

\* parts = path.split("/"); "__root__" if len(parts) == 1 else parts[0]
get_directory_group(p) ==
  IF FirstSlash(p) = 0 THEN s_root ELSE SubSeq(Chars[p], 1, FirstSlash(p) - 1)

\* ------------------------------------------------------------ chunk_files
\* Variant of IsPriority: the entry-point names are matched at the end of
\* the path instead of against the whole path.
IsPriorityBasename(f) ==
  \/ Contains(Lower(Chars[f.path]), s_readme)
  \/ \E e \in EntryPoints : EndsWith(Chars[f.path], e)
  \/ EndsWith(Lower(Chars[f.path]), s_init_py)

\* Variant of IsPriority: the entry-point names are compared with the
\* lower-cased path.
IsPriorityLowerExact(f) ==
  \/ Contains(Lower(Chars[f.path]), s_readme)
  \/ Lower(Chars[f.path]) \in EntryPoints
  \/ EndsWith(Lower(Chars[f.path]), s_init_py)

\* The condition of the first loop of chunk_files.
IsPriority(f) ==
  \/ Contains(Lower(Chars[f.path]), s_readme)
  \/ Chars[f.path] \in EntryPoints
  \/ EndsWith(Lower(Chars[f.path]), s_init_py)

\* Variant of IsRegular: regular_files.append(f) runs for every file.
IsRegularAlways(f) == TRUE

\* The else branch of the first loop.
IsRegular(f) == ~IsPriority(f)

\* Variant of GroupBy: directory_groups[group] = [f] instead of append, so a
\* group keeps only its last file.
GroupByOverwrite(regular) ==
  [g \in {get_directory_group(regular[i].path) : i \in 1..Len(regular)} |->
     LET fs == SelectSeq(regular, LAMBDA f : get_directory_group(f.path) = g)
     IN <<fs[Len(fs)]>>]

\* directory_groups after the grouping loop: group name -> files of the
\* group in the order of regular_files.
GroupBy(regular) ==
  [g \in {get_directory_group(regular[i].path) : i \in 1..Len(regular)} |->
     SelectSeq(regular, LAMBDA f : get_directory_group(f.path) = g)]

\* sorted(directory_groups.keys())
RECURSIVE SortedKeys(_)
SortedKeys(S) ==
  IF S = {} THEN <<>>
  ELSE LET m == CHOOSE x \in S : \A y \in S \ {x} : StrLess(x, y)
       IN <<m>> \o SortedKeys(S \ {m})

\* group_files.sort(key=lambda f: f.path)
PathBefore(f, g) == StrLess(Chars[f.path], Chars[g.path])

SortByPath(fs) == SortSeq(fs, PathBefore)

\* Variant of MustSeal: tests the chunk before the file is counted.
MustSealBeforeAdd(c, f, target) ==
  c.total_size > target /\ c.files # <<>>

\* Variant of MustSeal: "non-empty" tested on total_size instead of files.
MustSealBySize(c, f, target) ==
  c.total_size + f.size > target /\ c.total_size > 0

\* Variant of MustSeal: every non-empty chunk is sealed.
MustSealAlways(c, f, target) == c.files # <<>>

\* Variant of MustSeal: the budget is clamped to at least 1.
MustSealClamped(c, f, target) ==
  /\ c.total_size + f.size > (IF target < 1 THEN 1 ELSE target)
  /\ c.files # <<>>

\* Variant of MustSeal: >= instead of >.
MustSealAtLimit(c, f, target) ==
  c.total_size + f.size >= target /\ c.files # <<>>

\* Variant of MustSeal: without the "and chunk.files" guard.
MustSealNoGuard(c, f, target) == c.total_size + f.size > target

\* The seal test of both packing loops:
\* chunk.total_size + len(f.content) > target_size and chunk.files
MustSeal(c, f, target) ==
  c.total_size + f.size > target /\ c.files # <<>>

\* file_size > target_size
Oversized(f, target) == f.size > target

\* Variant of FreshChunkAt: the rebinding statement is missing, the name
\* still refers to the chunk just appended.
SameChunkAt(pos) == pos

\* "priority_chunk = Chunk()" / "current_chunk = Chunk()" right after
\* chunks.append(...): the name is bound to a new object.  The value is the
\* position in chunks of the object the name refers to, 0 for an object that
\* is not in the list; pos is the position of the chunk just appended.
FreshChunkAt(pos) == 0

\* A write through a name that refers to the object at position at of cs
\* (Python lists hold references): the element changes with the object.
WriteThrough(cs, at, c) == IF at = 0 THEN cs ELSE [cs EXCEPT ![at] = c]

VARIABLES
  files,             \* argument files
  target_size,       \* argument target_size
  pc,                \* position in chunk_files
  priority_files, regular_files, directory_groups,
  chunks,
  priority_chunk,
  current_chunk,     \* None or <<chunk>>
  pidx,              \* position of the loop over priority_files
  group_names, gidx, \* sorted(directory_groups.keys()) and its loop position
  group_files, fidx, \* the group being packed and its loop position
  result,            \* value returned by the last completed call
  calls,             \* completed calls
  first_result,      \* value returned by the first call
  ipc,               \* position in inspect_repository
  generate_diagram,  \* argument generate_diagram
  api_key,           \* TRUE when api_key or GEMINI_API_KEY is set
  analyses,          \* list[AnalysisResult] of inspect_repository
  remote_calls       \* the calls of Analyzer._generate made so far, in order

vars == <<files, target_size, pc, priority_files, regular_files,
          directory_groups, chunks, priority_chunk, current_chunk, pidx,
          group_names, gidx, group_files, fidx, result, calls, first_result,
          ipc, generate_diagram, api_key, analyses, remote_calls>>

\* The state of inspect_repository, which chunk_files does not touch.
pipeline_vars == <<ipc, generate_diagram, api_key, analyses, remote_calls>>

\* The state of chunk_files other than its position, arguments and result.
chunker_locals == <<priority_files, regular_files, directory_groups, chunks,
                    priority_chunk, current_chunk, pidx, group_names, gidx,
                    group_files, fidx, calls, first_result>>

\* Variant of NewChunkList: the list object outlives the call.
StaleChunkList == chunks

\* chunks: list[Chunk] = []
NewChunkList == <<>>

\* --------------------------------------------------------------- inputs
RepoFile == [path : Paths, size : 0..MaxSize]

RECURSIVE SeqsUpTo(_, _)
SeqsUpTo(S, n) ==
  IF n = 0 THEN {<<>>}
  ELSE LET shorter == SeqsUpTo(S, n - 1)
       IN shorter \cup {Append(s, x) : s \in shorter, x \in S}

UniquePaths(fs) ==
  \A i, j \in 1..Len(fs) : i # j => fs[i].path # fs[j].path

\* The lists chunk_files is called with: any order, any sizes (zero-length
\* files included), paths unique.
FileLists == {fs \in SeqsUpTo(RepoFile, MaxFiles) : UniquePaths(fs)}

\* The regular files of RegularPaths in every order, one byte each.
OrderLists ==
  {fs \in SeqsUpTo([path : RegularPaths, size : {1}], Cardinality(RegularPaths)) :
     Len(fs) = Cardinality(RegularPaths) /\ UniquePaths(fs)}

\* One or two files of ClassifyPaths in every order, one byte each.
ClassifyLists ==
  {fs \in SeqsUpTo([path : ClassifyPaths, size : {1}], 2) :
     fs # <<>> /\ UniquePaths(fs)}

Targets == (0 - 1)..MaxTarget

\* The call of scenario A: README.md (500 bytes), src/app.py (2000 bytes).
ScenarioAFiles == <<[path |-> p_README_md, size |-> 500],
                    [path |-> p_src_app_py, size |-> 2000]>>

Init ==
  /\ \/ files \in FileLists /\ target_size \in Targets
     \/ files \in OrderLists /\ target_size \in Targets
     \/ files \in ClassifyLists /\ target_size \in Targets
     \/ files = ScenarioAFiles /\ target_size = 1000000
  /\ pc = "start"
  /\ priority_files = <<>>
  /\ regular_files = <<>>
  /\ directory_groups = <<>>
  /\ chunks = <<>>
  /\ priority_chunk = Chunk
  /\ current_chunk = None
  /\ pidx = 1
  /\ group_names = <<>>
  /\ gidx = 1
  /\ group_files = <<>>
  /\ fidx = 1
  /\ result = <<>>
  /\ calls = 0
  /\ first_result = <<>>
  /\ ipc = "none"
  /\ generate_diagram = FALSE
  /\ api_key = FALSE
  /\ analyses = <<>>
  /\ remote_calls = <<>>

\* --------------------------------------------------------------- actions
\* Entry of chunk_files up to the start of the packing: the empty-input
\* return, the classification loop, the grouping loop, chunks = [] and,
\* when there are priority files, priority_chunk = Chunk().
Start ==
  /\ pc = "start"
  /\ UNCHANGED pipeline_vars
  /\ IF files = <<>>
     THEN /\ result' = <<>>
          /\ calls' = calls + 1
          /\ pc' = "done"
          /\ UNCHANGED <<priority_files, regular_files, directory_groups,
                         chunks, priority_chunk, current_chunk, pidx,
                         group_names, gidx, group_files, fidx>>
     ELSE /\ priority_files' = SelectSeq(files, IsPriority)
          /\ regular_files' = SelectSeq(files, IsRegular)
          /\ directory_groups' = GroupBy(regular_files')
          /\ chunks' = NewChunkList
          /\ IF priority_files' # <<>>
             THEN /\ priority_chunk' = Chunk
                  /\ pidx' = 1
                  /\ pc' = "priority"
                  /\ UNCHANGED <<current_chunk, group_names, gidx>>
             ELSE /\ current_chunk' = None
                  /\ group_names' = SortedKeys(DOMAIN directory_groups')
                  /\ gidx' = 1
                  /\ pc' = "groups"
                  /\ UNCHANGED <<priority_chunk, pidx>>
          /\ UNCHANGED <<group_files, fidx, result, calls>>
  /\ UNCHANGED <<files, target_size, first_result>>

\* One iteration of "for f in priority_files".
PriorityStep ==
  /\ pc = "priority"
  /\ UNCHANGED pipeline_vars
  /\ pidx <= Len(priority_files)
  /\ LET f == priority_files[pidx]
         seal == MustSeal(priority_chunk, f, target_size)
         appended == IF seal THEN Append(chunks, priority_chunk) ELSE chunks
         at == IF seal THEN FreshChunkAt(Len(appended)) ELSE 0
         grown == add_file(IF seal /\ at = 0 THEN Chunk ELSE priority_chunk, f)
     IN /\ chunks' = WriteThrough(appended, at, grown)
        /\ priority_chunk' = grown
  /\ pidx' = pidx + 1
  /\ UNCHANGED <<files, target_size, pc, priority_files, regular_files,
                 directory_groups, current_chunk, group_names, gidx,
                 group_files, fidx, result, calls, first_result>>

\* After the priority loop: "if priority_chunk.files: chunks.append", then
\* current_chunk = None and the sorted group names of the outer loop.
PriorityEnd ==
  /\ pc = "priority"
  /\ UNCHANGED pipeline_vars
  /\ pidx > Len(priority_files)
  /\ chunks' = IF priority_chunk.files # <<>>
               THEN Append(chunks, priority_chunk) ELSE chunks
  /\ current_chunk' = None
  /\ group_names' = SortedKeys(DOMAIN directory_groups)
  /\ gidx' = 1
  /\ pc' = "groups"
  /\ UNCHANGED <<files, target_size, priority_files, regular_files,
                 directory_groups, priority_chunk, pidx, group_files, fidx,
                 result, calls, first_result>>

\* Head of one iteration of "for group_name in sorted(...)": the group's
\* list is sorted in place.
NextGroup ==
  /\ pc = "groups"
  /\ UNCHANGED pipeline_vars
  /\ gidx <= Len(group_names)
  /\ LET name == group_names[gidx]
         sorted == SortByPath(directory_groups[name])
     IN /\ directory_groups' = [directory_groups EXCEPT ![name] = sorted]
        /\ group_files' = sorted
  /\ fidx' = 1
  /\ pc' = "group"
  /\ UNCHANGED <<files, target_size, priority_files, regular_files, chunks,
                 priority_chunk, current_chunk, pidx, group_names, gidx,
                 result, calls, first_result>>

\* One iteration of "for f in group_files"; after the group's last file the
\* outer loop moves to the next group.
RegularStep ==
  /\ pc = "group"
  /\ UNCHANGED pipeline_vars
  /\ fidx <= Len(group_files)
  /\ LET f == group_files[fidx]
     IN IF Oversized(f, target_size)
        THEN LET flush == current_chunk # None /\ current_chunk[1].files # <<>>
                 base == IF flush THEN Append(chunks, current_chunk[1]) ELSE chunks
             IN /\ chunks' = Append(base, add_file(Chunk, f))
                /\ current_chunk' = IF flush THEN None ELSE current_chunk
        ELSE LET cur == IF current_chunk = None THEN Chunk ELSE current_chunk[1]
                 seal == MustSeal(cur, f, target_size)
                 appended == IF seal THEN Append(chunks, cur) ELSE chunks
                 at == IF seal THEN FreshChunkAt(Len(appended)) ELSE 0
                 grown == add_file(IF seal /\ at = 0 THEN Chunk ELSE cur, f)
             IN /\ chunks' = WriteThrough(appended, at, grown)
                /\ current_chunk' = <<grown>>
  /\ IF fidx = Len(group_files)
     THEN gidx' = gidx + 1 /\ pc' = "groups" /\ fidx' = fidx + 1
     ELSE fidx' = fidx + 1 /\ UNCHANGED <<gidx, pc>>
  /\ UNCHANGED <<files, target_size, priority_files, regular_files,
                 directory_groups, priority_chunk, pidx, group_names,
                 group_files, result, calls, first_result>>

\* After the loops: the trailing chunk is appended when it has files, and
\* chunks is returned.
Finish ==
  /\ pc = "groups"
  /\ UNCHANGED pipeline_vars
  /\ gidx > Len(group_names)
  /\ chunks' = IF current_chunk # None /\ current_chunk[1].files # <<>>
               THEN Append(chunks, current_chunk[1]) ELSE chunks
  /\ result' = chunks'
  /\ calls' = calls + 1
  /\ pc' = "done"
  /\ UNCHANGED <<files, target_size, priority_files, regular_files,
                 directory_groups, priority_chunk, current_chunk, pidx,
                 group_names, gidx, group_files, fidx, first_result>>

\* The caller keeps the first result and calls chunk_files again with the
\* same arguments.
CallAgain ==
  /\ pc = "done"
  /\ UNCHANGED pipeline_vars
  /\ calls < MaxCalls
  /\ first_result' = result
  /\ pc' = "start"
  /\ UNCHANGED <<files, target_size, priority_files, regular_files,
                 directory_groups, chunks, priority_chunk, current_chunk,
                 pidx, group_names, gidx, group_files, fidx, result, calls>>

Next ==
  \/ Start
  \/ PriorityStep
  \/ PriorityEnd
  \/ NextGroup
  \/ RegularStep
  \/ Finish
  \/ CallAgain

Spec == Init /\ [][Next]_vars

\* ------------------------------------------------------------- pipeline
\* inspect_repository: chunk_files with its default target_size, then one
\* Analyzer.analyze_chunk per chunk, then Analyzer.synthesize.  The progress
\* callback and get_file_stats change none of this state.

\* TARGET_CHUNK_SIZE, the default of chunk_files' target_size
TARGET_CHUNK_SIZE == 100 * 1024

\* Content lengths of the files given to inspect_repository: a small file and
\* one of which two do not fit a chunk of the default size.
PipelineSizes == {1, (TARGET_CHUNK_SIZE \div 2) + 1}

PipelineLists ==
  {fs \in SeqsUpTo([path : Paths, size : PipelineSizes], MaxFiles) :
     UniquePaths(fs)}

\* Chunk.to_text: per file, the header line with its path and its content.
to_text(c) ==
  [k \in 1..Len(c.files) |->
     [header |-> c.files[k].path, content |-> c.files[k].size]]

\* Variant of chunk_index_of: enumerate counting from 1.
chunk_index_from_one(pos) == pos

\* enumerate(chunks): the index i given to the chunk at list position pos
chunk_index_of(pos) == pos - 1

\* if generate_diagram:
WantsDiagram(flag) == flag

\* The state at the entry of inspect_repository.
PipelineInit ==
  /\ files \in PipelineLists
  /\ target_size = TARGET_CHUNK_SIZE
  /\ pc = "idle"
  /\ priority_files = <<>>
  /\ regular_files = <<>>
  /\ directory_groups = <<>>
  /\ chunks = <<>>
  /\ priority_chunk = Chunk
  /\ current_chunk = None
  /\ pidx = 1
  /\ group_names = <<>>
  /\ gidx = 1
  /\ group_files = <<>>
  /\ fidx = 1
  /\ result = <<>>
  /\ calls = 0
  /\ first_result = <<>>
  /\ ipc = "entry"
  /\ generate_diagram \in BOOLEAN
  /\ api_key \in BOOLEAN
  /\ analyses = <<>>
  /\ remote_calls = <<>>

\* if not files: return ...; otherwise the call chunk_files(files).
InspectEntry ==
  /\ ipc = "entry"
  /\ IF files = <<>>
     THEN /\ ipc' = "returned"
          /\ UNCHANGED pc
     ELSE /\ ipc' = "chunking"
          /\ pc' = "start"
  /\ UNCHANGED <<files, target_size, result, chunker_locals,
                 generate_diagram, api_key, analyses, remote_calls>>

\* chunk_files has returned: if not chunks: return ...; Analyzer(api_key),
\* which raises ValueError without a key; analyses = [].
ChunkingDone ==
  /\ ipc = "chunking"
  /\ pc = "done"
  /\ ipc' = IF result = <<>> THEN "returned"
            ELSE IF ~api_key THEN "raised"
            ELSE "analyzing"
  /\ analyses' = <<>>
  /\ UNCHANGED <<files, target_size, pc, result, chunker_locals,
                 generate_diagram, api_key, remote_calls>>

\* One turn of the loop over enumerate(chunks): analyze_chunk(chunk, level, i)
\* makes one remote call with the chunk's text, which returns or raises; the
\* AnalysisResult with chunk_index = i is appended to analyses.
AnalyzeChunk ==
  /\ ipc = "analyzing"
  /\ Len(analyses) < Len(result)
  /\ LET pos == Len(analyses) + 1
         i == chunk_index_of(pos)
     IN /\ remote_calls' = Append(remote_calls,
                                  [kind |-> "analyze",
                                   prompt |-> to_text(result[pos])])
        /\ \/ /\ analyses' = Append(analyses,
                                    [chunk_index |-> i, analysis |-> "text"])
              /\ ipc' = ipc
           \/ /\ ipc' = "raised"
              /\ UNCHANGED analyses
  /\ UNCHANGED <<files, target_size, pc, result, chunker_locals,
                 generate_diagram, api_key>>

\* Analyzer.synthesize up to its first remote call, over the labels
\* "Chunk {chunk_index + 1}" of all analyses; the call returns or raises.
Synthesize ==
  /\ ipc = "analyzing"
  /\ Len(analyses) = Len(result)
  /\ remote_calls' = Append(remote_calls,
                            [kind |-> "synthesize",
                             prompt |-> [k \in 1..Len(analyses) |->
                                           analyses[k].chunk_index + 1]])
  /\ \/ ipc' = IF WantsDiagram(generate_diagram) THEN "diagram"
               ELSE "returned"
     \/ ipc' = "raised"
  /\ UNCHANGED <<files, target_size, pc, result, chunker_locals,
                 generate_diagram, api_key, analyses>>

\* The diagram call of Analyzer.synthesize, over the summary; it returns or
\* raises.
Diagram ==
  /\ ipc = "diagram"
  /\ remote_calls' = Append(remote_calls,
                            [kind |-> "diagram", prompt |-> <<"text">>])
  /\ \/ ipc' = "returned"
     \/ ipc' = "raised"
  /\ UNCHANGED <<files, target_size, pc, result, chunker_locals,
                 generate_diagram, api_key, analyses>>

PipelineNext ==
  \/ InspectEntry
  \/ Start
  \/ PriorityStep
  \/ PriorityEnd
  \/ NextGroup
  \/ RegularStep
  \/ Finish
  \/ ChunkingDone
  \/ AnalyzeChunk
  \/ Synthesize
  \/ Diagram

PipelineSpec == PipelineInit /\ [][PipelineNext]_vars

\* ------------------------------------------------------------ properties
Range(s) == {s[i] : i \in 1..Len(s)}

Count(s, x) == Cardinality({i \in 1..Len(s) : s[i] = x})

\* The files of a list of chunks, chunk after chunk.
RECURSIVE Flatten(_)
Flatten(cs) ==
  IF cs = <<>> THEN <<>> ELSE Head(cs).files \o Flatten(Tail(cs))

Returned == pc = "done"

\* C1 (completeness): when chunk_files returns, every file occurs in the
\* chunks of the result exactly as often as in the input list (once), so no
\* file is dropped and none is duplicated, and each lies in one chunk only.
Completeness ==
  Returned =>
    LET flat == Flatten(result)
    IN /\ Len(flat) = Len(files)
       /\ \A f \in Range(files) \cup Range(flat) :
            /\ Count(flat, f) = Count(files, f)
            /\ Cardinality({i \in 1..Len(result) : f \in Range(result[i].files)}) = 1

\* A call returned several chunks for three files, priority and regular.
CompletenessWitness ==
  /\ Returned
  /\ Len(files) = 3
  /\ Len(result) >= 2
  /\ priority_files # <<>>
  /\ Len(regular_files) >= 2

\* C2 (size bound): for a positive target_size, a returned chunk with more
\* than one file has total_size <= target_size, and a returned chunk whose
\* total_size exceeds target_size holds exactly one file, itself larger
\* than target_size.
SizeBound ==
  (Returned /\ target_size > 0) =>
    \A i \in 1..Len(result) :
      LET c == result[i]
      IN /\ Len(c.files) > 1 => c.total_size <= target_size
         /\ c.total_size > target_size =>
              Len(c.files) = 1 /\ c.files[1].size > target_size

\* A returned result has a full multi-file chunk of priority files, an
\* oversized singleton and a multi-file chunk of regular files.
SizeBoundWitness ==
  /\ Returned
  /\ target_size > 0
  /\ \E i \in 1..Len(result) :
       /\ Len(result[i].files) > 1
       /\ result[i].total_size = target_size
       /\ IsPriority(result[i].files[1])
  /\ \E i \in 1..Len(result) : result[i].total_size > target_size

\* C3 (oversized isolation): for a positive target_size, a file larger than
\* target_size is the only file of its chunk in the result, priority or not.
OversizedIsolation ==
  (Returned /\ target_size > 0) =>
    \A i \in 1..Len(result) :
      \A k \in 1..Len(result[i].files) :
        result[i].files[k].size > target_size => Len(result[i].files) = 1

\* An oversized priority file came right after a zero-length priority file,
\* and an oversized regular file was returned too.
OversizedIsolationWitness ==
  /\ Returned
  /\ target_size > 0
  /\ Len(priority_files) = 2
  /\ priority_files[1].size = 0
  /\ priority_files[2].size > target_size
  /\ regular_files # <<>>
  /\ regular_files[1].size > target_size


IsScenarioA == files = ScenarioAFiles /\ target_size = 1000000

\* C4 as stated (scenario A): README.md (500) and src/app.py (2000) with
\* target_size 1,000,000 give one chunk holding both, total_size 2500.
ScenarioAOneChunk ==
  (Returned /\ IsScenarioA) =>
    result = <<[files |-> ScenarioAFiles, total_size |-> 2500]>>

\* C4 as amended (scenario A): the same call gives two chunks, the first
\* holding README.md alone with total_size 500 and the second holding
\* src/app.py alone with total_size 2000.
ScenarioATwoChunks ==
  (Returned /\ IsScenarioA) =>
    result = <<[files |-> <<ScenarioAFiles[1]>>, total_size |-> 500],
               [files |-> <<ScenarioAFiles[2]>>, total_size |-> 2000]>>

\* The call of scenario A has returned.
ScenarioAWitness == Returned /\ IsScenarioA /\ Len(result) > 0

\* total_size(C_i) + size(first file of C_{i+1}) > target_size
PairSealed(cs, i) ==
  cs[i].total_size + cs[i + 1].files[1].size > target_size

\* C5 as stated (seal rule): in the result every pair of consecutive chunks
\* C_i, C_{i+1} has total_size(C_i) + size(first file of C_{i+1}) >
\* target_size, the last priority chunk and the first regular chunk included.
SealRuleAllPairs ==
  Returned => \A i \in 1..(Len(result) - 1) : PairSealed(result, i)

\* The file the running loop is about to pack.
Candidate ==
  IF pc = "priority" THEN priority_files[pidx] ELSE group_files[fidx]

\* The running loop has no file left.
LoopExhausted ==
  \/ pc = "priority" /\ pidx > Len(priority_files)
  \/ pc = "groups"

SealRuleStep ==
  \A i \in (Len(chunks) + 1)..Len(chunks') :
    /\ chunks'[i].files # <<>>
    /\ \/ LoopExhausted
       \/ chunks'[i].total_size + Candidate.size > target_size
       \/ chunks'[i].files = <<Candidate>> /\ Candidate.size > target_size

\* C5 as amended (seal rule): a step of chunk_files appends a chunk to the
\* result only when the chunk is non-empty and either appending the next
\* candidate file of the running loop would push its total_size over
\* target_size, or it is the one-file chunk of a regular file larger than
\* target_size, or the running loop (priority files, regular files) has no
\* file left.
SealRule == [][SealRuleStep]_vars

\* A chunk was sealed on size inside the priority loop, and the last
\* priority chunk was sealed although the first regular file would fit.
SealRuleWitness ==
  /\ Returned
  /\ target_size > 0
  /\ Len(result) = 3
  /\ IsPriority(result[2].files[1])
  /\ IsRegular(result[3].files[1])
  /\ PairSealed(result, 1)
  /\ ~PairSealed(result, 2)

\* C6 (priority precedence): in the result every chunk holding a priority
\* file comes strictly before every chunk holding a regular file, so no
\* chunk mixes the two and no regular file precedes a priority file.
PriorityPrecedence ==
  Returned =>
    LET withPriority ==
          {i \in 1..Len(result) :
             \E k \in 1..Len(result[i].files) : IsPriority(result[i].files[k])}
        withRegular ==
          {j \in 1..Len(result) :
             \E k \in 1..Len(result[j].files) : ~IsPriority(result[j].files[k])}
    IN \A i \in withPriority : \A j \in withRegular : i < j

\* The input starts with a regular file, and the result has priority chunks
\* followed by a regular chunk.
PriorityPrecedenceWitness ==
  /\ Returned
  /\ Len(files) = 3
  /\ ~IsPriority(files[1])
  /\ Len(result) = 3
  /\ IsPriority(result[2].files[1])
  /\ ~IsPriority(result[3].files[1])

\* C7 as stated (rejection of bad size): a call with target_size <= 0 does
\* not return a result.
BadSizeRejected == target_size <= 0 => ~Returned

\* C7 as amended: a call with target_size <= 0 is not rejected; it returns
\* a partition of the input without empty chunks in which every file of
\* non-zero length is alone in its chunk, and with a negative target_size
\* every file is alone in its chunk.
BadSizeDegrades ==
  (Returned /\ target_size <= 0) =>
    /\ Len(Flatten(result)) = Len(files)
    /\ Range(Flatten(result)) = Range(files)
    /\ \A i \in 1..Len(result) :
         /\ result[i].files # <<>>
         /\ Len(result[i].files) > 1 =>
              /\ target_size = 0
              /\ \A k \in 1..Len(result[i].files) : result[i].files[k].size = 0

\* A call with target_size 0 returned a chunk of several zero-length
\* priority files and a one-file chunk of a non-empty file.
BadSizeWitness ==
  /\ Returned
  /\ target_size = 0
  /\ Len(result) = 2
  /\ Len(result[1].files) = 2
  /\ IsPriority(result[1].files[1])
  /\ result[2].total_size > 0

\* C8 (determinism): the second call with the same arguments returns the
\* same chunks, with the same files in the same order and the same
\* total_size, as the first.
Determinism ==
  (Returned /\ calls >= 2) => result = first_result

\* A second call returned several chunks.
DeterminismWitness ==
  /\ Returned
  /\ calls = 2
  /\ Len(result) >= 2
  /\ priority_files # <<>>
  /\ regular_files # <<>>

\* C9 (non-emptiness): no chunk appended to the result has zero files, and
\* an empty input list returns the empty list.
NonEmptiness ==
  /\ \A i \in 1..Len(chunks) : chunks[i].files # <<>>
  /\ Returned =>
       /\ \A i \in 1..Len(result) : result[i].files # <<>>
       /\ files = <<>> => result = <<>>

\* An oversized regular file arrived while there was no running chunk, and
\* an oversized priority file arrived first in its loop.
NonEmptinessWitness ==
  /\ Returned
  /\ target_size > 0
  /\ Len(priority_files) = 1
  /\ priority_files[1].size > target_size
  /\ Len(result) >= 2
  /\ ~IsPriority(result[2].files[1])
  /\ result[2].total_size > target_size

Slash == "/"

\* The group key of C10: the first path segment, or the literal "__root__"
\* for a path without directory component.
GroupKey(path) ==
  LET p == Chars[path]
  IN IF Slash \notin Range(p)
     THEN <<"_", "_", "r", "o", "o", "t", "_", "_">>
     ELSE LET k == CHOOSE n \in 1..Len(p) :
                     p[n] = Slash /\ Slash \notin Range(SubSeq(p, 1, n - 1))
          IN SubSeq(p, 1, k - 1)

\* f comes before g in the order of C10.
OrderedBefore(f, g) ==
  \/ StrLess(GroupKey(f.path), GroupKey(g.path))
  \/ GroupKey(f.path) = GroupKey(g.path) /\ StrLess(Chars[f.path], Chars[g.path])

\* C10 (output order): the files of the result, chunk after chunk, are the
\* priority files in their input order followed by the regular files in
\* ascending order of group key and, within a group, of path.
OutputOrder ==
  Returned =>
    LET flat == Flatten(result)
        prio == SelectSeq(files, IsPriority)
        np == Len(prio)
    IN /\ Len(flat) >= np
       /\ SubSeq(flat, 1, np) = prio
       /\ \A i \in (np + 1)..Len(flat) : ~IsPriority(flat[i])
       /\ \A i \in (np + 1)..Len(flat) :
            \A j \in (i + 1)..Len(flat) : OrderedBefore(flat[i], flat[j])

\* Four regular files of the groups "Z", "__root__" and "src" (twice) were
\* given in the reverse of their output order.
OutputOrderWitness ==
  /\ Returned
  /\ Len(files) = 4
  /\ files[1].path = p_src_b_py
  /\ files[2].path = p_src_app_py
  /\ files[3].path = p_a_py
  /\ files[4].path = p_Z_x_py
  /\ Flatten(result) = <<files[4], files[3], files[2], files[1]>>

\* sum of len(f.content) over a list of files
RECURSIVE SumSizes(_)
SumSizes(fs) == IF fs = <<>> THEN 0 ELSE Head(fs).size + SumSizes(Tail(fs))

\* C14 (chunk size accounting): in every state of chunk_files, the chunk
\* under construction and every chunk of the result list have total_size
\* equal to the sum of len(content) over their files.
SizeAccounting ==
  /\ \A i \in 1..Len(chunks) : chunks[i].total_size = SumSizes(chunks[i].files)
  /\ priority_chunk.total_size = SumSizes(priority_chunk.files)
  /\ \A i \in 1..Len(current_chunk) :
       current_chunk[i].total_size = SumSizes(current_chunk[i].files)

\* In the regular loop, before the trailing chunk is appended: the running
\* chunk holds two files of different sizes and a chunk is already in the
\* result list.
SizeAccountingWitness ==
  /\ pc = "groups"
  /\ Len(chunks) >= 1
  /\ current_chunk # None
  /\ Len(current_chunk[1].files) = 2
  /\ current_chunk[1].files[1].size # current_chunk[1].files[2].size
  /\ current_chunk[1].total_size = 2

\* Both chunks come from priority files, or both from regular files.
SamePhase(cs, i) ==
  IsPriority(cs[i].files[1]) = IsPriority(cs[i + 1].files[1])

\* C15 (greedy maximality within a phase): for a positive target_size, two
\* consecutive chunks of the result that are both built from priority files
\* or both from regular files have total_size(C_i) + size(first file of
\* C_{i+1}) > target_size.
GreedyWithinPhase ==
  (Returned /\ target_size > 0) =>
    \A i \in 1..(Len(result) - 1) :
      SamePhase(result, i) => PairSealed(result, i)

\* A priority chunk, then a regular chunk and the oversized one-file chunk
\* of another group.
GreedyWithinPhaseWitness ==
  /\ Returned
  /\ target_size > 0
  /\ Len(result) = 3
  /\ IsPriority(result[1].files[1])
  /\ ~IsPriority(result[2].files[1])
  /\ result[2].total_size <= target_size
  /\ result[3].total_size > target_size
  /\ GroupKey(result[2].files[1].path) # GroupKey(result[3].files[1].path)

\* Text t reads as word at offset k when case is ignored (word in lower
\* case: a letter of t may be the upper-case letter, 32 code points below).
MatchesAt(t, k, word) ==
  /\ k >= 0
  /\ k + Len(word) <= Len(t)
  /\ \A n \in 1..Len(word) :
       \/ t[k + n] = word[n]
       \/ Ord[t[k + n]] + 32 = Ord[word[n]] /\ Ord[t[k + n]] \in 65..90

\* The rule of C13 on a path.
PriorityByRule(path) ==
  LET t == Chars[path]
  IN \/ \E k \in 0..Len(t) : MatchesAt(t, k, <<"r", "e", "a", "d", "m", "e">>)
     \/ path \in {"main.py", "app.py", "index.js", "index.ts", "main.go", "main.rs"}
     \/ MatchesAt(t, Len(t) - 11,
                  <<"_", "_", "i", "n", "i", "t", "_", "_", ".", "p", "y">>)

\* The paths of the model that the rule of C13 makes priority.
RulePaths == {path \in DOMAIN Chars : PriorityByRule(path)}

\* The classification loop of the running call is over.
Classified == files # <<>> /\ pc \in {"priority", "groups", "group", "done"}

\* C13 (priority classification): chunk_files puts a file in priority_files
\* if and only if its lower-cased path contains "readme", or its whole path
\* is exactly one of main.py, app.py, index.js, index.ts, main.go, main.rs,
\* or its lower-cased path ends with "__init__.py"; every other file is in
\* regular_files.
PriorityClassification ==
  Classified =>
    \A i \in 1..Len(files) :
      /\ files[i] \in Range(priority_files) <=> files[i].path \in RulePaths
      /\ files[i] \in Range(regular_files) <=> files[i].path \notin RulePaths

\* src/main.py was classified regular and a file under the directory ReadMe
\* priority.
PriorityClassificationWitness ==
  /\ Returned
  /\ Len(files) = 2
  /\ files[1].path = "src/main.py"
  /\ files[2].path = "ReadMe/a.py"
  /\ priority_files = <<files[2]>>
  /\ regular_files = <<files[1]>>

\* s is an initial part of t.
IsPrefix(s, t) == Len(s) <= Len(t) /\ SubSeq(t, 1, Len(s)) = s

\* The chunk w under construction either was appended to the result list
\* by the step or only gained files.
OnlyGrows(w, w2) ==
  \/ w.files = <<>>
  \/ \E i \in (Len(chunks) + 1)..Len(chunks') : chunks'[i] = w
  \/ IsPrefix(w.files, w2.files)

\* The chunk under construction before the step, if there is one.
Working ==
  IF pc = "priority" THEN {priority_chunk}
  ELSE IF current_chunk # None THEN {current_chunk[1]} ELSE {}

\* A chunk appended by the step is in the list as it was when appended: the
\* chunk under construction as it stood, or the one-file chunk made for an
\* oversized regular file before its append.
AppendedAsBuilt(c) ==
  \/ c \in Working
  \/ pc = "group" /\ c = [files |-> <<Candidate>>, total_size |-> Candidate.size]

SealedImmutableStep ==
  pc \in {"priority", "groups", "group"} =>
    /\ IsPrefix(chunks, chunks')
    /\ \A i \in (Len(chunks) + 1)..Len(chunks') : AppendedAsBuilt(chunks'[i])
    /\ pc = "priority" => OnlyGrows(priority_chunk, priority_chunk')
    /\ (pc = "group" /\ current_chunk # None /\ current_chunk' # None) =>
         OnlyGrows(current_chunk[1], current_chunk'[1])

\* C12 (sealed chunks are immutable): no step of a call changes or removes
\* a chunk that is already in the result list, and a chunk appended by a
\* step stays as it was at its append, so every add_file goes to a chunk
\* that is not in the list; and the chunk under construction never loses a
\* file.
SealedImmutable == [][SealedImmutableStep]_vars

\* Two chunks of the regular loop were sealed on size, and the file that
\* made each seal went to a new running chunk.
SealedImmutableWitness ==
  /\ pc = "group"
  /\ target_size > 0
  /\ Len(chunks) = 2
  /\ ~IsPriority(chunks[1].files[1])
  /\ chunks[1].total_size <= target_size
  /\ chunks[2].total_size <= target_size
  /\ current_chunk # None
  /\ current_chunk[1].files # <<>>

\* The kinds of the remote calls made so far, in order.
CallKinds == [k \in 1..Len(remote_calls) |-> remote_calls[k].kind]

\* The calls of a run over n chunks that returns.
ExpectedKinds(n, diagram) ==
  [k \in 1..(n + 1 + (IF diagram THEN 1 ELSE 0)) |->
     IF k <= n THEN "analyze"
     ELSE IF k = n + 1 THEN "synthesize"
     ELSE "diagram"]

\* C11 (pipeline call order): inspect_repository makes no remote call before
\* chunk_files has returned, and none at all for an empty file list.  Over
\* the n chunks of a non-empty list the calls made so far are always a
\* prefix of: n analysis calls, then one synthesis call, then one diagram
\* call exactly when generate_diagram is true; the k-th analysis call carries
\* the text of chunk k - 1 and its result has chunk_index = k - 1; the
\* synthesis call is made only with all n analyses collected; and a run that
\* returns has made the whole sequence.
PipelineCallOrder ==
  /\ ipc \in {"entry", "chunking"} => remote_calls = <<>>
  /\ files = <<>> => remote_calls = <<>>
  /\ (ipc \in {"analyzing", "diagram", "returned", "raised"} /\ files # <<>>) =>
       LET n == Len(result)
           expected == ExpectedKinds(n, generate_diagram)
       IN /\ IsPrefix(CallKinds, expected)
          /\ \A k \in 1..Len(remote_calls) :
               k <= n => remote_calls[k].prompt = to_text(result[k])
          /\ Len(analyses) <= n
          /\ \A k \in 1..Len(analyses) : analyses[k].chunk_index = k - 1
          /\ Len(remote_calls) > n =>
               /\ Len(analyses) = n
               /\ remote_calls[n + 1].prompt = [k \in 1..n |-> k]
          /\ ipc = "returned" => CallKinds = expected

\* A run over three chunks with generate_diagram returned after five calls.
PipelineCallOrderWitness ==
  /\ ipc = "returned"
  /\ generate_diagram
  /\ Len(result) = 3
  /\ Len(analyses) = 3
  /\ Len(remote_calls) = 5

====
